---------------------------- MODULE Spec2Model ----------------------------
(***************************************************************************)
(* State-machine model of the magnet-pve game loop (src/src/main.rs).      *)
(*                                                                         *)
(* Units.  The program computes in f32; the model uses fixed point:        *)
(*   - time in 1/120 s, so TIME_STEP (1/60 s) is 2 and the explosion       *)
(*     timer period (0.05 s) is 6;                                         *)
(*   - lengths in 1/60 of a Transform unit, so that velocity * TIME_STEP   *)
(*     is an integer number of length units for every integer velocity;    *)
(*   - velocities in whole Transform units per second.                     *)
(* Commands (spawn / despawn) are deferred: a system only queues them, and *)
(* the stage applies the queues after all systems of one pass have run.    *)
(***************************************************************************)
EXTENDS Integers, Sequences, FiniteSets

(* ------------------------- program constants --------------------------- *)
\* const TIME_STEP: f32 = 1.0 / 60.0  (fixed steps per second)
STEPS_PER_SECOND == 60
\* one length unit of the program is SUB model units
SUB == STEPS_PER_SECOND
\* one fixed step, in time units of 1/120 s
TIME_STEP == 2
\* Timer::from_seconds(0.05, true), in time units of 1/120 s
EXPLOSION_PERIOD == 6

PLAYER_SIZE == 30
GAP_BETWEEN_PLAYER_AND_FLOOR == 60
PLAYER_SPEED == 300
ENEMY_SPEED == 150
PLAYER_PADDING == 10
WALL_THICKNESS == 10
LEFT_WALL == -450
RIGHT_WALL == 450
BOTTOM_WALL == -300
TOP_WALL == 300
ENEMY_SIZE == 20
MAGNET_RADIUS == 200
MAGNET_FORCE == 50
\* VELOCITY_DRAG = 0.99, as a percentage
VELOCITY_DRAG_PCT == 99
WEAPON_RADIUS == MAGNET_RADIUS \div 2
DAMAGE == 10
PLAYER_HEALTH == 100
ENEMY_HEALTH == 10
EXPLOSION_LEN == 16

(* ------------------------------ bounds --------------------------------- *)
\* number of enemies spawned by setup (the program spawns 10)
ENEMY_COUNT == 2
\* number of rendered frames explored from setup
MaxFrames == 2
\* number of rendered frames explored by the movement specification
MaxMoveFrames == 3

Enemies == 1..ENEMY_COUNT

(* ------------------------------ arithmetic ----------------------------- *)
Abs(a) == IF a < 0 THEN -a ELSE a

\* division rounding toward zero, as a symmetric stand-in for f32 rounding
TruncDiv(a, b) == IF a >= 0 THEN a \div b ELSE -((-a) \div b)

RECURSIVE SqrtBits(_, _, _)
\* largest r with r*r <= n, by bisection on [lo, hi)
SqrtBits(n, lo, hi) ==
    IF hi - lo <= 1 THEN lo
    ELSE LET mid == (lo + hi) \div 2
         IN IF mid * mid <= n THEN SqrtBits(n, mid, hi) ELSE SqrtBits(n, lo, mid)

\* Vec2::length of an integer vector whose squared length is n (n < 2^30)
ISqrt(n) == SqrtBits(n, 0, 32768)

\* Vec2::distance(a, b) compared with a radius r (program units), on
\* positions in model units; strict selects "<" over "<=".
WithinDistance(ax, ay, bx, by, r, strict) ==
    LET dx == Abs(ax - bx)
        dy == Abs(ay - by)
        rr == r * SUB
    IN /\ dx <= rr
       /\ dy <= rr
       /\ IF strict THEN dx * dx + dy * dy < rr * rr
                    ELSE dx * dx + dy * dy <= rr * rr

(* ------------------------------- state --------------------------------- *)
VARIABLES
    player,        \* the Player entity's Transform.translation, [x, y]
    pos,           \* enemy -> Transform.translation, [x, y]
    vel,           \* enemy -> Velocity, [x, y]
    hp,            \* enemy -> Hp.current
    live,          \* the enemies whose entity exists
    player_hp,     \* the player's Hp.current
    score,         \* Scoreboard.score
    requests,      \* the ExplosionToSpawn entities, in table order
    explosions,    \* the Explosion entities, in table order
    removed,       \* enemy -> number of its explosions despawned so far
    commands,      \* the deferred Commands queued in the current pass
    pressed,       \* Input::pressed of keyboard and mouse
    just_pressed,  \* Input::just_pressed of keyboard and mouse
    delta,         \* Time::delta of the current frame
    accumulator,   \* FixedTimestep's accumulator
    stage,         \* "idle" between frames, "first" / "loop" pass of Update
    should_run,    \* the FixedTimestep run criterion of the current pass
    done,          \* the systems that have run in the current pass
    pull_events,   \* MagnetPullEvents not yet read by play_magnet_sounds
    push_events,   \* MagnetPushEvents not yet read by play_magnet_sounds
    pull_played,   \* audio.play(pull_sound) calls since the last press of Q
    push_played,   \* audio.play(push_sound) calls since the last press of E
    frame          \* frames counted so far

world_vars == <<player, pos, vel, hp, live, player_hp, score>>
fx_vars    == <<requests, explosions, removed>>
input_vars == <<pressed, just_pressed, delta>>
sound_vars == <<pull_events, push_events, pull_played, push_played>>
vars == <<player, pos, vel, hp, live, player_hp, score, requests, explosions,
          removed, commands, pressed, just_pressed, delta, accumulator,
          stage, should_run, done, pull_events, push_events, pull_played,
          push_played, frame>>

Vec(a, b) == [x |-> a, y |-> b]

\* a spawn of setup: position and velocity in program units
Spawn(px, py, vx, vy) == [x |-> px, y |-> py, vx |-> vx, vy |-> vy]

\* the ranges setup draws an enemy from: gen_range is half open
SetupRange(s) ==
    /\ LEFT_WALL <= s.x /\ s.x < RIGHT_WALL
    /\ BOTTOM_WALL <= s.y /\ s.y < TOP_WALL
    /\ -ENEMY_SPEED <= s.vx /\ s.vx < ENEMY_SPEED
    /\ -ENEMY_SPEED <= s.vy /\ s.vy < ENEMY_SPEED

\* enemy e takes the slots of a layout in turn
SlotOf(slots, e) == slots[((e - 1) % Len(slots)) + 1]

\* enemies at rest around the player: on the weapon radius (100), on the
\* magnet radius (200), and inside both
LayoutRing == << Spawn(60, -160, 0, 0), Spawn(0, -40, 0, 0), Spawn(0, -190, 0, 0) >>
\* enemies drifting toward the player, one unit per step, from just outside
\* the weapon radius, from inside it and from just outside the magnet radius
LayoutDrift == << Spawn(0, -139, 0, -60), Spawn(0, -190, 0, -60), Spawn(0, -39, 0, -60) >>
\* enemies overlapping the left wall and each other
LayoutWall == << Spawn(-440, 0, 50, 0), Spawn(-425, 0, -50, 0), Spawn(-440, 100, -50, 0) >>
\* enemies at rest inside the weapon radius
LayoutClose == << Spawn(0, -190, 0, 0), Spawn(30, -240, 0, 0), Spawn(-30, -200, 0, 0) >>
\* enemies at the edge of the ranges setup draws from: at rest below the
\* player next to the bottom wall, and next to a wall at almost full speed
\* toward it
LayoutEdge == << Spawn(0, -290, 0, 0), Spawn(449, 0, 149, 0), Spawn(-449, 299, -149, 149) >>

NoCommands ==
    [despawn_enemies    |-> {},
     spawn_requests     |-> << >>,
     spawn_explosions   |-> << >>,
     despawn_requests   |-> {},
     despawn_explosions |-> {}]

\* the world after setup, for one of the given layouts
InitWith(layouts) ==
    /\ player = Vec(0, (BOTTOM_WALL + GAP_BETWEEN_PLAYER_AND_FLOOR) * SUB)
    /\ player_hp = PLAYER_HEALTH
    /\ \E slots \in layouts :
          /\ \A e \in Enemies : SetupRange(SlotOf(slots, e))
          /\ pos = [e \in Enemies |-> Vec(SlotOf(slots, e).x * SUB, SlotOf(slots, e).y * SUB)]
          /\ vel = [e \in Enemies |-> Vec(SlotOf(slots, e).vx, SlotOf(slots, e).vy)]
    /\ hp = [e \in Enemies |-> ENEMY_HEALTH]
    /\ live = Enemies
    /\ score = 0
    /\ requests = << >>
    /\ explosions = << >>
    /\ removed = [e \in Enemies |-> 0]
    /\ commands = NoCommands
    /\ pressed = {}
    /\ just_pressed = {}
    /\ delta = 0
    /\ accumulator = 0
    /\ stage = "idle"
    /\ should_run = FALSE
    /\ done = {}
    /\ pull_events = 0
    /\ push_events = 0
    /\ pull_played = 0
    /\ push_played = 0
    /\ frame = 0

(* ------------------------------ schedule ------------------------------- *)
\* the systems of the FixedTimestep system set
FixedSystems ==
    {"magnet", "play_magnet_sounds", "move_player", "apply_velocity",
     "combat", "check_for_collisions"}

\* the systems added without run criteria: they run once per frame
FrameSystems == {"explosion_to_spawn_system", "explosion_animation_system"}

\* variant: combat is not declared to run before check_for_collisions
Before_combat_free ==
    {<<"magnet", "move_player">>,
     <<"magnet", "play_magnet_sounds">>,
     <<"move_player", "check_for_collisions">>,
     <<"apply_velocity", "check_for_collisions">>}

\* the declared ordering constraints: <<a, b>> is "a runs before b"
Before ==
    {<<"magnet", "move_player">>,
     <<"magnet", "play_magnet_sounds">>,
     <<"move_player", "check_for_collisions">>,
     <<"apply_velocity", "check_for_collisions">>,
     <<"combat", "check_for_collisions">>}

\* the systems of the current pass of the Update stage: systems without run
\* criteria run in the first pass only, the fixed set whenever its criterion
\* says so
PassSystems ==
    (IF stage = "first" THEN FrameSystems ELSE {})
        \cup (IF should_run THEN FixedSystems ELSE {})

\* the executor may start system s: it has not run in this pass and every
\* system declared before it has
Ready(s) ==
    /\ stage # "idle"
    /\ s \in PassSystems
    /\ s \notin done
    /\ \A o \in Before : (o[2] = s /\ o[1] \in PassSystems) => o[1] \in done

Ran(s) == /\ Ready(s)
          /\ done' = done \cup {s}
          /\ UNCHANGED <<stage, should_run, accumulator, frame, input_vars>>

\* FixedTimestep::update: the accumulator after the criterion is evaluated
\* and whether the set runs; time is added only when not already looping
StepAccumulator(acc) == IF acc >= TIME_STEP THEN acc - TIME_STEP ELSE acc
StepShouldRun(acc) == acc >= TIME_STEP

\* Input::press for every input that went down since the last frame
JustPressed(old, new) == new \ old

\* A new frame: Time and Input are updated (First / PreUpdate), then the
\* Update stage starts and evaluates the run criterion of the fixed set.
StartFrame(inputs, deltas) ==
    /\ stage = "idle"
    /\ \E p \in inputs, d \in deltas :
          /\ pressed' = p
          /\ just_pressed' = JustPressed(pressed, p)
          /\ delta' = d
          /\ accumulator' = StepAccumulator(accumulator + d)
          /\ should_run' = StepShouldRun(accumulator + d)
          /\ pull_played' = IF "Q" \in JustPressed(pressed, p) THEN 0 ELSE pull_played
          /\ push_played' = IF "E" \in JustPressed(pressed, p) THEN 0 ELSE push_played
    /\ stage' = "first"
    /\ done' = {}
    /\ UNCHANGED <<world_vars, fx_vars, commands, pull_events, push_events>>

\* a frame of a run that is followed for at most limit frames
BeginFrame(inputs, deltas, limit) ==
    /\ frame < limit
    /\ frame' = frame + 1
    /\ StartFrame(inputs, deltas)

\* a frame of a run that is followed without a limit
FreeFrame(inputs, deltas) ==
    /\ frame' = frame
    /\ StartFrame(inputs, deltas)

(* ----------------------------- commands -------------------------------- *)
RECURSIVE Keep(_, _, _)
\* the entities of table s, from index i on, that are not despawned
Keep(s, drop, i) ==
    IF i > Len(s) THEN << >>
    ELSE (IF i \in drop THEN << >> ELSE << s[i] >>) \o Keep(s, drop, i + 1)

RECURSIVE CountSrc(_, _)
\* how many entries of s stem from enemy e, as a function of e
CountSrc(s, e) ==
    IF s = << >> THEN 0
    ELSE (IF Head(s).src = e THEN 1 ELSE 0) + CountSrc(Tail(s), e)

\* the explosions despawned by the queued commands
DespawnedExplosions ==
    SelectSeq([i \in 1..Len(explosions) |->
                  [src |-> explosions[i].src, gone |-> i \in commands.despawn_explosions]],
              LAMBDA r : r.gone)

\* The stage applies the queued commands of the pass, then evaluates the run
\* criterion again when it asked to be checked again; the frame ends when the
\* fixed set is not to run once more.
EndPass ==
    /\ stage # "idle"
    /\ done = PassSystems
    /\ live' = live \ commands.despawn_enemies
    /\ requests' = Keep(requests, commands.despawn_requests, 1) \o commands.spawn_requests
    /\ explosions' = Keep(explosions, commands.despawn_explosions, 1) \o commands.spawn_explosions
    /\ removed' = [e \in Enemies |-> removed[e] + CountSrc(DespawnedExplosions, e)]
    /\ commands' = NoCommands
    /\ done' = {}
    /\ IF should_run /\ StepShouldRun(accumulator)
          THEN /\ stage' = "loop"
               /\ should_run' = TRUE
               /\ accumulator' = StepAccumulator(accumulator)
          ELSE /\ stage' = "idle"
               /\ should_run' = FALSE
               /\ accumulator' = accumulator
    /\ UNCHANGED <<player, pos, vel, hp, player_hp, score, input_vars, sound_vars, frame>>

(* ------------------------------ force field ---------------------------- *)
\* variant: the boundary of the radius is inside (distance <= radius)
point_in_radius_closed(point, center, radius) ==
    WithinDistance(point.x, point.y, center.x, center.y, radius, FALSE)

\* fn point_in_radius: distance < radius
point_in_radius(point, center, radius) ==
    WithinDistance(point.x, point.y, center.x, center.y, radius, TRUE)

\* the distance travelled in one fixed step at v units per second
StepDistance(v) == TruncDiv(v * SUB, STEPS_PER_SECOND)

\* the velocity written for one axis: the target when the projected
\* position (translation + target) is strictly inside the arena on that
\* axis, the old component otherwise
AxisVelocity(p, old, target, lo, hi) ==
    IF p + target * SUB > lo * SUB /\ p + target * SUB < hi * SUB THEN target ELSE old

\* fn pull_push_enemy: the enemy's velocity after the call
pull_push_enemy(pl, ep, ev, is_push) ==
    IF ~point_in_radius(ep, pl, MAGNET_RADIUS) THEN ev
    ELSE LET dx == IF is_push THEN ep.x - pl.x ELSE pl.x - ep.x
             dy == IF is_push THEN ep.y - pl.y ELSE pl.y - ep.y
             distance == ISqrt(dx * dx + dy * dy)
         IN \* at distance 0 normalize() and the division give NaN: both
            \* comparisons with the walls are false and nothing is written
            IF distance = 0 THEN ev
            ELSE LET additional_speed == TruncDiv(MAGNET_FORCE * MAGNET_RADIUS * SUB, distance)
                     target_speed == ENEMY_SPEED + additional_speed
                     target_x == TruncDiv(dx * target_speed * VELOCITY_DRAG_PCT, distance * 100)
                     target_y == TruncDiv(dy * target_speed * VELOCITY_DRAG_PCT, distance * 100)
                 IN Vec(AxisVelocity(ep.x, ev.x, target_x, LEFT_WALL, RIGHT_WALL),
                        AxisVelocity(ep.y, ev.y, target_y, BOTTOM_WALL, TOP_WALL))

\* the pull loop of magnet, run while Q is held
PullAll(v) ==
    [e \in Enemies |-> IF e \in live THEN pull_push_enemy(player, pos[e], v[e], FALSE) ELSE v[e]]

\* the push loop of magnet, run while E is held
PushAll(v) ==
    [e \in Enemies |-> IF e \in live THEN pull_push_enemy(player, pos[e], v[e], TRUE) ELSE v[e]]

\* the velocities magnet leaves: pull first, then push on its result
MagnetVelocity ==
    LET pulled == IF "Q" \in pressed THEN PullAll(vel) ELSE vel
    IN IF "E" \in pressed THEN PushAll(pulled) ELSE pulled

\* the events magnet sends for a press edge
SentEvents(key) == IF key \in just_pressed THEN 1 ELSE 0

magnet ==
    /\ Ran("magnet")
    /\ pull_events' = pull_events + SentEvents("Q")
    /\ push_events' = push_events + SentEvents("E")
    /\ vel' = MagnetVelocity
    /\ UNCHANGED <<player, pos, hp, live, player_hp, score, fx_vars, commands,
                   pull_played, push_played>>

\* the plays one run of play_magnet_sounds adds for a reader that sees n
\* unread events
Plays(n) == IF n > 0 THEN 1 ELSE 0

play_magnet_sounds ==
    /\ Ran("play_magnet_sounds")
    /\ pull_played' = pull_played + Plays(pull_events)
    /\ push_played' = push_played + Plays(push_events)
    /\ pull_events' = 0
    /\ push_events' = 0
    /\ UNCHANGED <<world_vars, fx_vars, commands>>

(* ------------------------------- movement ------------------------------ *)
\* variant: only the upper limit is enforced
Clamp_upper(v, lo, hi) == IF v > hi THEN hi ELSE v

\* f32::clamp
Clamp(v, lo, hi) == IF v < lo THEN lo ELSE IF v > hi THEN hi ELSE v

left_bound   == LEFT_WALL * SUB + (WALL_THICKNESS * SUB) \div 2 + (PLAYER_SIZE * SUB) \div 2 + PLAYER_PADDING * SUB
right_bound  == RIGHT_WALL * SUB - (WALL_THICKNESS * SUB) \div 2 - (PLAYER_SIZE * SUB) \div 2 - PLAYER_PADDING * SUB
bottom_bound == BOTTOM_WALL * SUB + (WALL_THICKNESS * SUB) \div 2 + (PLAYER_SIZE * SUB) \div 2 + PLAYER_PADDING * SUB
top_bound    == TOP_WALL * SUB - (WALL_THICKNESS * SUB) \div 2 - (PLAYER_SIZE * SUB) \div 2 - PLAYER_PADDING * SUB

\* the direction move_player reads from the arrow keys
Direction ==
    Vec((IF "Right" \in pressed THEN 1 ELSE 0) - (IF "Left" \in pressed THEN 1 ELSE 0),
        (IF "Up" \in pressed THEN 1 ELSE 0) - (IF "Down" \in pressed THEN 1 ELSE 0))

\* the player's translation after move_player
MovedPlayer ==
    Vec(Clamp(player.x + Direction.x * StepDistance(PLAYER_SPEED), left_bound, right_bound),
        Clamp(player.y + Direction.y * StepDistance(PLAYER_SPEED), bottom_bound, top_bound))

move_player ==
    /\ Ran("move_player")
    /\ player' = MovedPlayer
    /\ UNCHANGED <<pos, vel, hp, live, player_hp, score, fx_vars, commands, sound_vars>>

\* the translation apply_velocity leaves for an entity with a Velocity
Integrated(p, v) == Vec(p.x + StepDistance(v.x), p.y + StepDistance(v.y))

apply_velocity ==
    /\ Ran("apply_velocity")
    /\ pos' = [e \in Enemies |-> IF e \in live THEN Integrated(pos[e], vel[e]) ELSE pos[e]]
    /\ UNCHANGED <<player, vel, hp, live, player_hp, score, fx_vars, commands, sound_vars>>

(* -------------------------------- combat ------------------------------- *)
\* a trigger edge fired: left mouse button or Space just pressed
Trigger == "MouseLeft" \in just_pressed \/ "Space" \in just_pressed

\* variant: the radius test excludes the boundary (distance < WEAPON_RADIUS)
InWeaponRadius_strict(e) ==
    WithinDistance(player.x, player.y, pos[e].x, pos[e].y, WEAPON_RADIUS, TRUE)

\* the weapon reaches the enemy: distance <= WEAPON_RADIUS
InWeaponRadius(e) ==
    WithinDistance(player.x, player.y, pos[e].x, pos[e].y, WEAPON_RADIUS, FALSE)

\* combat hits enemy e in this run
Hit(e) == e \in live /\ InWeaponRadius(e) /\ Trigger

\* variant: the damage is subtracted twice
HitHp_twice(h) == h - DAMAGE - DAMAGE

\* enemy_health.current -= DAMAGE as i32
HitHp(h) == h - DAMAGE

\* the hit brings the enemy's health to zero or below
Killed(e) == Hit(e) /\ HitHp(hp[e]) <= 0

RECURSIVE KillRequests(_)
\* the ExplosionToSpawn spawns combat queues, for enemies e.. in query order
KillRequests(e) ==
    IF e > ENEMY_COUNT THEN << >>
    ELSE (IF Killed(e) THEN << [src |-> e, x |-> pos[e].x, y |-> pos[e].y] >> ELSE << >>)
            \o KillRequests(e + 1)

\* variant: combat forgets to despawn the enemies it kills
KillDespawns_none == {}

\* the entities combat queues for despawn
KillDespawns == {e \in Enemies : Killed(e)}

combat ==
    /\ Ran("combat")
    /\ hp' = [e \in Enemies |-> IF Hit(e) THEN HitHp(hp[e]) ELSE hp[e]]
    /\ score' = score + Cardinality({e \in Enemies : Killed(e)})
    /\ commands' = [commands EXCEPT
                      !.despawn_enemies = @ \cup KillDespawns,
                      !.spawn_requests = @ \o KillRequests(1)]
    /\ UNCHANGED <<player, pos, vel, live, player_hp, fx_vars, sound_vars>>

(* ------------------------------ explosions ----------------------------- *)
\* the explosion spawned for a request: sprite index 0, a fresh timer
NewExplosion(r) == [src |-> r.src, x |-> r.x, y |-> r.y, index |-> 0, elapsed |-> 0]

\* variant: the system forgets to despawn the requests it has converted
ConvertedRequests_none == {}

\* the ExplosionToSpawn entities the system queues for despawn
ConvertedRequests == 1..Len(requests)

explosion_to_spawn_system ==
    /\ Ran("explosion_to_spawn_system")
    /\ commands' = [commands EXCEPT
                      !.spawn_explosions = @ \o [i \in 1..Len(requests) |-> NewExplosion(requests[i])],
                      !.despawn_requests = @ \cup ConvertedRequests]
    /\ UNCHANGED <<world_vars, fx_vars, sound_vars>>

\* Timer::tick on a repeating timer: finished() when at least one period
\* ended during the tick, the remainder is kept
TimerFinished(elapsed, d) == elapsed + d >= EXPLOSION_PERIOD
TimerElapsed(elapsed, d) == (elapsed + d) % EXPLOSION_PERIOD

\* the sprite index after one run of the animation system
NextIndex(x, d) == IF TimerFinished(x.elapsed, d) THEN x.index + 1 ELSE x.index

\* the animation is over: the entity is queued for despawn
AnimationOver(x, d) == TimerFinished(x.elapsed, d) /\ NextIndex(x, d) >= EXPLOSION_LEN

explosion_animation_system ==
    /\ Ran("explosion_animation_system")
    /\ explosions' = [i \in 1..Len(explosions) |->
                         [explosions[i] EXCEPT
                             !.index = NextIndex(explosions[i], delta),
                             !.elapsed = TimerElapsed(explosions[i].elapsed, delta)]]
    /\ commands' = [commands EXCEPT
                      !.despawn_explosions =
                          @ \cup {i \in 1..Len(explosions) : AnimationOver(explosions[i], delta)}]
    /\ UNCHANGED <<world_vars, requests, removed, sound_vars>>

(* ------------------------------ collisions ----------------------------- *)
\* a collider: centre and full size, in model units
Box(cx, cy, w, h) == [x |-> cx, y |-> cy, w |-> w, h |-> h]

arena_height == TOP_WALL - BOTTOM_WALL
arena_width == RIGHT_WALL - LEFT_WALL

\* WallLocation::position and WallLocation::size, for Left, Right, Bottom, Top
Walls ==
    << Box(LEFT_WALL * SUB, 0, WALL_THICKNESS * SUB, (arena_height + WALL_THICKNESS) * SUB),
       Box(RIGHT_WALL * SUB, 0, WALL_THICKNESS * SUB, (arena_height + WALL_THICKNESS) * SUB),
       Box(0, BOTTOM_WALL * SUB, (arena_width + WALL_THICKNESS) * SUB, WALL_THICKNESS * SUB),
       Box(0, TOP_WALL * SUB, (arena_width + WALL_THICKNESS) * SUB, WALL_THICKNESS * SUB) >>

PlayerBox == Box(player.x, player.y, PLAYER_SIZE * SUB, PLAYER_SIZE * SUB)

\* an enemy's Transform as a collider: scale is ENEMY_SIZE
EnemyBox(e) == Box(pos[e].x, pos[e].y, ENEMY_SIZE * SUB, ENEMY_SIZE * SUB)

RECURSIVE EnemyBoxes(_)
EnemyBoxes(e) ==
    IF e > ENEMY_COUNT THEN << >>
    ELSE (IF e \in live THEN << EnemyBox(e) >> ELSE << >>) \o EnemyBoxes(e + 1)

\* collider_query: every entity with a Collider, in table order: the player,
\* the four walls, the enemies
Colliders == << PlayerBox >> \o Walls \o EnemyBoxes(1)

\* bevy::sprite::collide_aabb::collide(a_pos, a_size, b_pos, b_size):
\* "None" when the boxes do not intersect, else the side of b that a hit,
\* the side of smaller penetration depth when both axes report one;
\* "Inside" has infinite depth
collide(a, b) ==
    LET a_min_x == a.x - a.w \div 2
        a_max_x == a.x + a.w \div 2
        a_min_y == a.y - a.h \div 2
        a_max_y == a.y + a.h \div 2
        b_min_x == b.x - b.w \div 2
        b_max_x == b.x + b.w \div 2
        b_min_y == b.y - b.h \div 2
        b_max_y == b.y + b.h \div 2
        x_side == IF a_min_x < b_min_x /\ a_max_x > b_min_x THEN "Left"
                  ELSE IF a_min_x < b_max_x /\ a_max_x > b_max_x THEN "Right"
                  ELSE "Inside"
        x_depth == IF x_side = "Left" THEN Abs(b_min_x - a_max_x)
                   ELSE IF x_side = "Right" THEN Abs(a_min_x - b_max_x)
                   ELSE -1
        y_side == IF a_min_y < b_min_y /\ a_max_y > b_min_y THEN "Bottom"
                  ELSE IF a_min_y < b_max_y /\ a_max_y > b_max_y THEN "Top"
                  ELSE "Inside"
        y_depth == IF y_side = "Bottom" THEN Abs(b_min_y - a_max_y)
                   ELSE IF y_side = "Top" THEN Abs(a_min_y - b_max_y)
                   ELSE -1
    IN IF a_min_x < b_max_x /\ a_max_x > b_min_x /\ a_min_y < b_max_y /\ a_max_y > b_min_y
          THEN \* y_depth.abs() < x_depth.abs(), with -1 standing for infinity
               IF y_depth # -1 /\ (x_depth = -1 \/ y_depth < x_depth) THEN y_side ELSE x_side
          ELSE "None"

\* the velocity after the reflection for one collision
Reflect(v, collision) ==
    LET reflect_x == \/ collision = "Left" /\ v.x > 0
                     \/ collision = "Right" /\ v.x < 0
        reflect_y == \/ collision = "Top" /\ v.y < 0
                     \/ collision = "Bottom" /\ v.y > 0
    IN Vec(IF reflect_x THEN -v.x ELSE v.x, IF reflect_y THEN -v.y ELSE v.y)

RECURSIVE Bounce(_, _, _, _)
\* the inner loop of check_for_collisions: the enemy's velocity after it is
\* checked against colliders i.. in turn
Bounce(box, v, colliders, i) ==
    IF i > Len(colliders) THEN v
    ELSE Bounce(box, Reflect(v, collide(box, colliders[i])), colliders, i + 1)

check_for_collisions ==
    /\ Ran("check_for_collisions")
    /\ vel' = [e \in Enemies |->
                 IF e \in live THEN Bounce(EnemyBox(e), vel[e], Colliders, 1) ELSE vel[e]]
    /\ UNCHANGED <<player, pos, hp, live, player_hp, score, fx_vars, commands, sound_vars>>

(* ---------------------------- specifications --------------------------- *)
\* General play: the magnet keys and the two triggers, frames of one and of
\* two fixed steps.
PlayInputs == {{}, {"Q"}, {"E"}, {"Q", "E"}, {"MouseLeft"}, {"Space"}}
PlayDeltas == {TIME_STEP, 2 * TIME_STEP}

Init == InitWith({LayoutRing, LayoutDrift})

PlayFrame == BeginFrame(PlayInputs, PlayDeltas, MaxFrames)

Next == PlayFrame \/ magnet \/ play_magnet_sounds \/ move_player \/ apply_velocity
           \/ combat \/ check_for_collisions \/ explosion_to_spawn_system
           \/ explosion_animation_system \/ EndPass

Spec == Init /\ [][Next]_vars

\* Player movement: every combination of the arrow keys, frames of three
\* fixed steps.
MoveInputs == SUBSET {"Left", "Right", "Up", "Down"}
MoveDeltas == {3 * TIME_STEP}

InitMove == InitWith({LayoutRing})

MoveFrame == BeginFrame(MoveInputs, MoveDeltas, MaxMoveFrames)

NextMove == MoveFrame \/ magnet \/ play_magnet_sounds \/ move_player \/ apply_velocity
               \/ combat \/ check_for_collisions \/ explosion_to_spawn_system
               \/ explosion_animation_system \/ EndPass

SpecMove == InitMove /\ [][NextMove]_vars

\* Enemies at the left wall, no input.
WallInputs == {{}}

InitWall == InitWith({LayoutWall})

WallFrame == BeginFrame(WallInputs, PlayDeltas, MaxFrames)

NextWall == WallFrame \/ magnet \/ play_magnet_sounds \/ move_player \/ apply_velocity
               \/ combat \/ check_for_collisions \/ explosion_to_spawn_system
               \/ explosion_animation_system \/ EndPass

SpecWall == InitWall /\ [][NextWall]_vars

\* Explosions: enemies at rest, the trigger as only input, frames of one
\* fixed step and of two timer periods; frames keep coming.
ExplosionInputs == {{}, {"MouseLeft"}}
ExplosionDeltas == {TIME_STEP, 2 * EXPLOSION_PERIOD}

InitExplosion == InitWith({LayoutClose})

ExplosionFrame == FreeFrame(ExplosionInputs, ExplosionDeltas)

NextExplosion == ExplosionFrame \/ magnet \/ play_magnet_sounds \/ move_player
                    \/ apply_velocity \/ combat \/ check_for_collisions
                    \/ explosion_to_spawn_system \/ explosion_animation_system \/ EndPass

SpecExplosion == InitExplosion /\ [][NextExplosion]_vars /\ WF_vars(NextExplosion)

\* Arena edge: enemies next to the walls, pull and push as inputs.
EdgeInputs == {{}, {"Q"}, {"E"}, {"Q", "E"}}

InitEdge == InitWith({LayoutEdge})

EdgeFrame == BeginFrame(EdgeInputs, PlayDeltas, MaxFrames)

NextEdge == EdgeFrame \/ magnet \/ play_magnet_sounds \/ move_player \/ apply_velocity
               \/ combat \/ check_for_collisions \/ explosion_to_spawn_system
               \/ explosion_animation_system \/ EndPass

SpecEdge == InitEdge /\ [][NextEdge]_vars

(* ------------------------------- claims -------------------------------- *)
\* the squared distance between the player and enemy e, in model units
Dist2(e) ==
    (player.x - pos[e].x) * (player.x - pos[e].x)
        + (player.y - pos[e].y) * (player.y - pos[e].y)

\* the squared radius r (program units), in model units
Radius2(r) == (r * SUB) * (r * SUB)

\* system s runs in this step
Step(s) == s \notin done /\ s \in done'

\* the enemies combat has brought to zero health or below
Dead == {e \in Enemies : hp[e] <= 0}

\* C1: the score never decreases and equals the number of enemies killed by
\* combat: in every step the score grows by the number of enemies whose
\* health reaches <= 0 in that step, so every kill counts once; a killed
\* enemy is queued for despawn at once and is gone when the next pass
\* starts, so it cannot be hit and counted again.
C1_ScoreCountsKills ==
    /\ [](/\ score = Cardinality(Dead)
          /\ \A e \in Dead : e \notin live \/ e \in commands.despawn_enemies
          /\ done = {} => Dead \cap live = {})
    /\ [][/\ score' >= score
          /\ score' - score = Cardinality({e \in Enemies : hp[e] > 0 /\ hp'[e] <= 0})]_vars

\* C1 witness: an enemy was killed and despawned, the score counts it, and a
\* later trigger edge has run combat again
C1_Witness ==
    /\ score = 1
    /\ Cardinality(Enemies \ live) = 1
    /\ "combat" \in done
    /\ Trigger
    /\ frame = 2

\* C2: in the combat step of a tick with a trigger edge every enemy at
\* distance <= WEAPON_RADIUS loses exactly DAMAGE health, all of them in that
\* one step; every farther enemy, and every enemy when no trigger edge fired,
\* keeps its health; no other step changes health.
C2_HitInRadius ==
    [][IF Step("combat")
          THEN \A e \in live :
                  hp'[e] = IF Trigger /\ Dist2(e) <= Radius2(WEAPON_RADIUS)
                              THEN hp[e] - DAMAGE
                              ELSE hp[e]
          ELSE hp' = hp]_vars

\* C2 witness: on the trigger frame one combat step has damaged two enemies,
\* one of them exactly on the weapon radius, which it reached by drifting
C2_Witness ==
    /\ frame = 1
    /\ stage = "first"
    /\ "combat" \in done
    /\ Trigger
    /\ \E e \in live :
          /\ Dist2(e) = Radius2(WEAPON_RADIUS)
          /\ vel[e] # Vec(0, 0)
          /\ hp[e] = ENEMY_HEALTH - DAMAGE
          /\ \E o \in live \ {e} : hp[o] = ENEMY_HEALTH - DAMAGE

\* C10: every entity with an Hp component, the player and every enemy whose
\* entity still exists, has 0 <= current <= max, also after a hit and while
\* a killed enemy waits for its deferred despawn.
C10_HealthInRange ==
    /\ 0 <= player_hp /\ player_hp <= PLAYER_HEALTH
    /\ \A e \in live : 0 <= hp[e] /\ hp[e] <= ENEMY_HEALTH

\* C10 witness: a killed enemy, at zero health, still exists while its
\* despawn is queued
C10_Witness ==
    \E e \in live : hp[e] = 0 /\ e \in commands.despawn_enemies /\ "combat" \in done

\* the wall coordinate moved inward by half the wall thickness, half the
\* player size and the player padding, in model units
Inset == ((WALL_THICKNESS + PLAYER_SIZE) * SUB) \div 2 + PLAYER_PADDING * SUB

\* C3: whatever arrow keys are held, in every state the player's x lies in
\* [left_bound, right_bound] and its y in [bottom_bound, top_bound], each
\* bound being the wall coordinate moved inward by half the wall thickness,
\* half the player size and the player padding; this holds after every
\* move_player step and no other system moves the player out of it.
C3_PlayerInBounds ==
    /\ LEFT_WALL * SUB + Inset <= player.x /\ player.x <= RIGHT_WALL * SUB - Inset
    /\ BOTTOM_WALL * SUB + Inset <= player.y /\ player.y <= TOP_WALL * SUB - Inset

\* C3 witness: the player stands on the bottom bound after a move_player
\* step with Down held in the third frame: the six steps of the first two
\* frames brought it there, so this step was clamped
C3_Witness ==
    /\ frame = 3
    /\ "move_player" \in done
    /\ "Down" \in pressed /\ "Up" \notin pressed
    /\ player.y = BOTTOM_WALL * SUB + Inset

\* C4: whether pull, push or both are held, the magnet step leaves the
\* velocity of every enemy at distance >= MAGNET_RADIUS from the player
\* unchanged; the boundary itself is outside.
C4_OutsideUntouched ==
    [][Step("magnet") =>
          \A e \in live : Dist2(e) >= Radius2(MAGNET_RADIUS) => vel'[e] = vel[e]]_vars

\* C4 witness: magnet has run with Q held while an enemy at rest sits exactly
\* on the magnet radius and a nearer one was pulled
C4_Witness ==
    /\ "magnet" \in done
    /\ "apply_velocity" \notin done
    /\ "Q" \in pressed
    /\ \E e \in live :
          /\ Dist2(e) = Radius2(MAGNET_RADIUS)
          /\ vel[e] = Vec(0, 0)
          /\ \E o \in live \ {e} : Dist2(o) < Radius2(MAGNET_RADIUS) /\ vel[o] # Vec(0, 0)

\* the velocity component perpendicular to wall w (1 Left, 2 Right,
\* 3 Bottom, 4 Top), counted positive when it points into that wall
IntoWall(w, v) == IF w = 1 THEN -v.x ELSE IF w = 2 THEN v.x ELSE IF w = 3 THEN -v.y ELSE v.y

\* C5: in the collision step an enemy overlapping a wall has its velocity
\* component perpendicular to that wall negated when it points into the wall
\* and unchanged when it points away from it, whatever other colliders the
\* enemy is checked against in the same step.
C5_WallReflection ==
    [][Step("check_for_collisions") =>
          \A e \in live : \A w \in 1..4 :
              collide(EnemyBox(e), Walls[w]) # "None" =>
                  /\ IntoWall(w, vel[e]) > 0 => IntoWall(w, vel'[e]) = -IntoWall(w, vel[e])
                  /\ IntoWall(w, vel[e]) < 0 => IntoWall(w, vel'[e]) = IntoWall(w, vel[e])]_vars

\* C8 as stated: the systems of a tick run in the one order magnet,
\* move_player, combat, apply_velocity, check_for_collisions.
C8_TotalOrder ==
    /\ "move_player" \in done => "magnet" \in done
    /\ "combat" \in done => "move_player" \in done
    /\ "apply_velocity" \in done => "combat" \in done
    /\ "check_for_collisions" \in done => "apply_velocity" \in done

\* C8, amended: in every fixed tick each gameplay system runs exactly once,
\* with magnet before move_player and before play_magnet_sounds, and with
\* move_player, apply_velocity and combat before check_for_collisions; the
\* declared constraints fix no other order (apply_velocity and combat may run
\* before magnet, and in either order).
C8_DeclaredOrder ==
    /\ [](/\ "move_player" \in done => "magnet" \in done
          /\ "play_magnet_sounds" \in done => "magnet" \in done
          /\ "check_for_collisions" \in done =>
                {"move_player", "apply_velocity", "combat"} \subseteq done)
    /\ [][/\ done' # done =>
                \/ \E s \in FixedSystems \cup FrameSystems : s \notin done /\ done' = done \cup {s}
                \/ /\ done' = {}
                   /\ should_run => FixedSystems \subseteq done
          /\ <<player, pos, vel, hp, score>>' # <<player, pos, vel, hp, score>> =>
                \E s \in FixedSystems : Step(s)]_vars

\* C8 witness: velocity integration has run in a tick before the force
\* field, player movement and combat
C8_Witness ==
    /\ should_run
    /\ "apply_velocity" \in done
    /\ "magnet" \notin done
    /\ "combat" \notin done

\* C9: for each press of Q and each press of E the magnet sound is played at
\* most once, however many fixed ticks run while the press edge is reported.
C9_SoundOncePerPress == pull_played <= 1 /\ push_played <= 1

\* C6: for every active explosion the sprite index grows by exactly 1 for
\* each timer period that elapses, also when the frame's time delta spans
\* several periods, and the entity is despawned in the step in which the
\* index first reaches EXPLOSION_LEN.
C6_IndexPerPeriod ==
    [][Step("explosion_animation_system") =>
          \A i \in 1..Len(explosions) :
              /\ explosions'[i].index =
                     explosions[i].index + (explosions[i].elapsed + delta) \div EXPLOSION_PERIOD
              /\ i \in commands'.despawn_explosions <=>
                     (explosions[i].index < EXPLOSION_LEN /\ explosions'[i].index >= EXPLOSION_LEN)]_vars

\* the ExplosionToSpawn entities of enemy e that are queued for despawn
ConvertingOf(e) ==
    Cardinality({i \in commands.despawn_requests : i <= Len(requests) /\ requests[i].src = e})

\* C7: every kill queues exactly one explosion request, at the position the
\* enemy has when it is killed; a request that exists when a frame starts is
\* turned into exactly one active explosion at its position, with sprite
\* index 0, and is discarded when that frame's first pass ends; at any time a
\* killed enemy has exactly one request, active explosion or removed
\* explosion; with frames coming and time advancing the explosion of every
\* killed enemy is eventually removed and stays removed, never requested or
\* active again.
C7_ExplosionLifecycle ==
    /\ [](\A e \in Enemies :
            /\ CountSrc(commands.spawn_requests, e) + CountSrc(requests, e)
                  + CountSrc(explosions, e) + removed[e] = IF hp[e] <= 0 THEN 1 ELSE 0
            /\ CountSrc(commands.spawn_explosions, e) = ConvertingOf(e))
    /\ [][/\ \A e \in Enemies : removed'[e] >= removed[e]
          /\ Step("combat") =>
                /\ \A e \in Enemies :
                      CountSrc(commands'.spawn_requests, e) - CountSrc(commands.spawn_requests, e)
                          = IF hp[e] > 0 /\ hp'[e] <= 0 THEN 1 ELSE 0
                /\ \A i \in Len(commands.spawn_requests) + 1 .. Len(commands'.spawn_requests) :
                      /\ commands'.spawn_requests[i].x = pos[commands'.spawn_requests[i].src].x
                      /\ commands'.spawn_requests[i].y = pos[commands'.spawn_requests[i].src].y
          /\ (stage # "idle" /\ done' = {} /\ done # {}) =>
                requests' = (IF stage = "first" THEN << >> ELSE requests) \o commands.spawn_requests
          /\ (stage = "first" /\ stage' # "first") =>
                /\ Len(explosions') - Len(Keep(explosions, commands.despawn_explosions, 1))
                      = Len(requests)
                /\ \A i \in 1..Len(requests) :
                      \E j \in 1..Len(explosions') :
                          explosions'[j] = [src |-> requests[i].src, x |-> requests[i].x,
                                            y |-> requests[i].y, index |-> 0, elapsed |-> 0]]_vars
    /\ <>[](\A e \in Enemies :
                hp[e] <= 0 => (CountSrc(explosions, e) = 0 /\ removed[e] = 1))

\* C7 witness: the explosion of a killed enemy has gone through request and
\* active explosion and is removed, while frames go on
C7_Witness ==
    \E e \in Enemies :
        /\ removed[e] = 1
        /\ hp[e] <= 0
        /\ requests = << >>
        /\ explosions = << >>
        /\ stage = "first"

\* the velocity the force field leaves enemy e with from the current state
\* when only push is held
PushOnly(e) == pull_push_enemy(player, pos[e], vel[e], TRUE)

\* C11: when Q and E are both held in a tick, every enemy inside the magnet
\* radius leaves the magnet step with the velocity the step would give it
\* from the same state with only E held, on both axes.
C11_PushOverridesPull ==
    [][(Step("magnet") /\ {"Q", "E"} \subseteq pressed) =>
          \A e \in live : Dist2(e) < Radius2(MAGNET_RADIUS) => vel'[e] = PushOnly(e)]_vars

\* C12: the centre of every live enemy is within the rectangle bounded by
\* the four walls, in every state reached from a layout setup can produce.
C12_EnemiesContained ==
    \A e \in live :
        /\ LEFT_WALL * SUB <= pos[e].x /\ pos[e].x <= RIGHT_WALL * SUB
        /\ BOTTOM_WALL * SUB <= pos[e].y /\ pos[e].y <= TOP_WALL * SUB

=============================================================================
